---- MODULE Spec2Model ----
(***************************************************************************)
(* The test orchestrator of test_comprehensive.py: main() builds a         *)
(* TestOrchestrator, run_all_tests filters the suite catalogue, submits    *)
(* every selected suite to a ThreadPoolExecutor of four workers, collects  *)
(* the futures with as_completed and builds the report; _run_test_suite    *)
(* runs one suite in a worker thread and touches the process-wide working  *)
(* directory.                                                              *)
(*                                                                         *)
(* Optional values (Optional[...] in the source) are sets with at most one *)
(* element: {} is None.  Decimal numbers are held in tenths (875 = 87.5).  *)
(***************************************************************************)
EXTENDS Integers, Sequences, FiniteSets, TLC

\* ThreadPoolExecutor(max_workers=4)
MaxWorkers == 4

\* TestSuite.timeout default, in seconds
DefaultTimeout == 300

\* Bound: how many of the directories that the run works in are removed
\* (by a suite's own command, or by anyone else) while the run goes on.
MaxRemovals == 1

\* The directory the process is started in, and the directories suites name.
StartDir == "/w"

None == {}
Some(x) == {x}

(***************************************************************************)
(* Text.  An output is a sequence of lines, a line a sequence of tokens;   *)
(* a token is a word or a number (in tenths).                              *)
(***************************************************************************)
Word(s) == [w |-> s, n |-> 0]
Num(v) == [w |-> "#", n |-> v]

IsNum(tok) == tok.w = "#"

\* str.lower() on the words of the vocabulary that have upper-case letters
Lower(s) ==
    CASE s = "Jest" -> "jest"
      [] s = "Vitest" -> "vitest"
      [] s = "Latency" -> "latency"
      [] s = "Throughput" -> "throughput"
      [] s = "Memory" -> "memory"
      [] s = "MB" -> "mb"
      [] OTHER -> s

\* `word in line`
InLine(word, line) == \E i \in 1..Len(line) : line[i].w = word

\* `word in line.lower()`
InLineLower(word, line) == \E i \in 1..Len(line) : Lower(line[i].w) = word

\* `word in output.lower()`
InOutputLower(word, output) ==
    \E k \in 1..Len(output) : InLineLower(word, output[k])

\* re.search(r'(\d+(?:\.\d+)?)\s*<unit>', line): the positions of a number
\* directly followed by the unit
UnitMatches(line, unit) ==
    {i \in 1..Len(line) : /\ IsNum(line[i])
                          /\ i < Len(line)
                          /\ line[i + 1].w = unit}

MinOf(S) == CHOOSE x \in S : \A y \in S : x <= y

\* The first match of the search, as an optional number
Search(line, unit) ==
    IF UnitMatches(line, unit) = {} THEN None
    ELSE Some(line[MinOf(UnitMatches(line, unit))].n)

\* re.search(r'coverage:\s*(\d+(?:\.\d+)?)%', line)
SearchGoCoverage(line) ==
    LET hits == {i \in 1..Len(line) : /\ line[i].w = "coverage:"
                                       /\ i + 2 <= Len(line)
                                       /\ IsNum(line[i + 1])
                                       /\ line[i + 2].w = "%"}
    IN  IF hits = {} THEN None ELSE Some(line[MinOf(hits) + 1].n)

SearchPercent(line) == Search(line, "%")

\* The regular expression each branch of _extract_coverage applies to a line
SearchCoverage(marker, line) ==
    IF marker = "coverage:" THEN SearchGoCoverage(line) ELSE SearchPercent(line)

\* The loop `for line in lines: if <marker> in line and "%" in line: ...
\* if match: return float(...)`: the first line that carries the marker, a
\* percent sign and a match decides.
FirstLineMatch(output, marker) ==
    LET hits == {k \in 1..Len(output) : /\ InLine(marker, output[k])
                                         /\ InLine("%", output[k])
                                         /\ SearchCoverage(marker, output[k]) # None}
    IN  IF hits = {} THEN None ELSE SearchCoverage(marker, output[MinOf(hits)])

_extract_coverage(output, test_type) ==
    IF InOutputLower("vitest", output) \/ InOutputLower("jest", output)
    THEN FirstLineMatch(output, "All files")
    ELSE IF test_type = "mvn"
    THEN FirstLineMatch(output, "Total")
    ELSE IF test_type = "go test"
    THEN FirstLineMatch(output, "coverage:")
    ELSE None

MetricKeys == {"latency_ms", "throughput_rps", "memory_mb"}

\* One field of the metrics dictionary: every line that passes the field's
\* test and matches assigns it, so the last such line wins.
MetricField(output, word, unit, caseUnit) ==
    LET hits == {k \in 1..Len(output) :
                    /\ InLineLower(word, output[k]) \/ InLine(caseUnit, output[k])
                    /\ Search(output[k], unit) # None}
    IN  IF hits = {} THEN None
        ELSE Search(output[CHOOSE k \in hits : \A j \in hits : j <= k], unit)

\* The metrics found, as a function from the keys that were assigned
MetricsDict(output) ==
    LET lat == MetricField(output, "latency", "ms", "ms")
        thr == MetricField(output, "throughput", "rps", "rps")
        mem == MetricField(output, "memory", "mb", "mb")
        val(key) == CASE key = "latency_ms" -> lat
                      [] key = "throughput_rps" -> thr
                      [] OTHER -> mem
        keys == {key \in MetricKeys : val(key) # None}
    IN  [key \in keys |-> CHOOSE v \in val(key) : TRUE]

\* `return metrics if metrics else None`
_extract_performance_metrics(output) ==
    IF DOMAIN MetricsDict(output) = {} THEN None ELSE Some(MetricsDict(output))

(***************************************************************************)
(* The catalogue and the commands.                                         *)
(***************************************************************************)
Suite(name, type, command, wd) ==
    [name |-> name, type |-> type, command |-> command, working_dir |-> wd,
     timeout |-> DefaultTimeout]

\* What a child process prints
JestOutput ==
    << << Word("jest"), Word("PASS") >>,
       << Word("All files"), Word("|"), Num(850), Word("%") >>,
       << Word("latency"), Num(420), Word("ms") >> >>

Exits(rc, elapsed, stdout, stderr) ==
    [kind |-> "exit", returncode |-> rc, elapsed |-> elapsed,
     stdout |-> stdout, stderr |-> stderr]

Hangs == [kind |-> "timeout", returncode |-> 0, elapsed |-> 0,
          stdout |-> << >>, stderr |-> ""]

\* ChildRuns for subprocess.run called without a timeout: a child that hangs
\* never ends
ChildRunsNoTimeout(command) ==
    CASE command = "true" -> {Exits(0, 1, << >>, "")}
      [] command = "jest" -> {Exits(0, 2, JestOutput, "")}
      [] command = "exit 7" -> {Exits(7, 61, JestOutput, "boom")}
      [] command = "sleep" -> {}
      [] OTHER -> {Exits(0, 2, JestOutput, ""),
                   Exits(7, 61, JestOutput, "boom")}

\* A command is an opaque external program: what a run of it can do once it
\* is launched.  "npm test" stands for a command of unknown behaviour, which
\* may also be missing from the machine.
ChildRuns(command) ==
    CASE command = "true" -> {Exits(0, 1, << >>, "")}
      [] command = "jest" -> {Exits(0, 2, JestOutput, "")}
      [] command = "exit 7" -> {Exits(7, 61, JestOutput, "boom")}
      [] command = "sleep" -> {Hangs}
      [] OTHER -> {Exits(0, 2, JestOutput, ""),
                   Exits(7, 61, JestOutput, "boom"), Hangs}

\* Whether subprocess.run finds the executable
Launchable(command) == IF command = "npm test" THEN {TRUE, FALSE} ELSE {TRUE}

\* Three suites; two are of unknown behaviour and name a working directory
\* of their own
SmallCatalogue ==
    << Suite("Backend Unit Tests", "unit", "npm test", "/a"),
       Suite("E2E Tests", "e2e", "npm test", "/b"),
       Suite("Performance Tests", "performance", "jest", ".") >>

\* Five suites, more than there are workers, each of a known behaviour
LargeCatalogue ==
    << Suite("Backend Unit Tests", "unit", "true", "."),
       Suite("Frontend Unit Tests", "unit", "jest", "."),
       Suite("E2E Tests", "e2e", "sleep", "."),
       Suite("Performance Tests", "performance", "exit 7", "."),
       Suite("TinyURL System Tests", "system", "jest", ".") >>

Catalogues == {SmallCatalogue, LargeCatalogue}

\* main(): unit, e2e and system suites always run; --integration and
\* --performance add theirs, --all adds every type.
Selections ==
    { {"unit", "e2e", "system"} \cup opt : opt \in SUBSET {"integration", "performance"} }

\* run_all_tests: the suites whose type is included, in declaration order
RECURSIVE FilterFrom(_, _, _)
FilterFrom(catalogue, s, include) ==
    IF s > Len(catalogue) THEN << >>
    ELSE IF catalogue[s].type \in include
         THEN << s >> \o FilterFrom(catalogue, s + 1, include)
         ELSE FilterFrom(catalogue, s + 1, include)

Filter(catalogue, include) == FilterFrom(catalogue, 1, include)

\* os.chdir(path) from directory `from`
ChdirTarget(from, path) == IF path = "." THEN from ELSE path

(***************************************************************************)
(* TestResult                                                              *)
(***************************************************************************)
Msg(fmt, name, num, exc) == [fmt |-> fmt, name |-> name, num |-> num, exc |-> exc]

TestResult(name, type, status, duration, message, coverage, metrics, details) ==
    [name |-> name, type |-> type, status |-> status, duration |-> duration,
     message |-> message, coverage |-> coverage,
     performance_metrics |-> metrics, error_details |-> details]

\* ExitResult with the test `returncode >= 0` in place of `returncode == 0`
ExitResultNonNegativePasses(suite, run) ==
    TestResult(suite.name, suite.type,
               IF run.returncode >= 0 THEN "passed" ELSE "failed",
               run.elapsed,
               Msg("{name} completed successfully", suite.name, 0, ""),
               _extract_coverage(run.stdout, suite.type),
               IF suite.type = "performance"
               THEN _extract_performance_metrics(run.stdout) ELSE None,
               None)

\* ExitResult with the metrics extracted for a suite of any type
ExitResultMetricsForAll(suite, run) ==
    TestResult(suite.name, suite.type,
               IF run.returncode = 0 THEN "passed" ELSE "failed",
               run.elapsed,
               IF run.returncode = 0
               THEN Msg("{name} completed successfully", suite.name, 0, "")
               ELSE Msg("{name} failed with return code {num}", suite.name,
                        run.returncode, ""),
               IF run.returncode = 0
               THEN _extract_coverage(run.stdout, suite.type) ELSE None,
               _extract_performance_metrics(run.stdout),
               IF run.returncode # 0 THEN Some(run.stderr) ELSE None)

\* _run_test_suite, after subprocess.run returned
ExitResult(suite, run) ==
    TestResult(suite.name, suite.type,
               IF run.returncode = 0 THEN "passed" ELSE "failed",
               run.elapsed,
               IF run.returncode = 0
               THEN Msg("{name} completed successfully", suite.name, 0, "")
               ELSE Msg("{name} failed with return code {num}", suite.name,
                        run.returncode, ""),
               IF run.returncode = 0
               THEN _extract_coverage(run.stdout, suite.type) ELSE None,
               IF suite.type = "performance"
               THEN _extract_performance_metrics(run.stdout) ELSE None,
               IF run.returncode # 0 THEN Some(run.stderr) ELSE None)

\* TimeoutResult with a status of its own for timeouts
TimeoutResultOwnStatus(suite) ==
    TestResult(suite.name, suite.type, "timeout", suite.timeout,
               Msg("{name} timed out after {num} seconds", suite.name,
                   suite.timeout, ""),
               None, None, Some("Test execution timeout"))

\* except subprocess.TimeoutExpired
TimeoutResult(suite) ==
    TestResult(suite.name, suite.type, "error", suite.timeout,
               Msg("{name} timed out after {num} seconds", suite.name,
                   suite.timeout, ""),
               None, None, Some("Test execution timeout"))

\* An outcome of a suite's own handler that loses the suite's type
ExceptionResultErrorType(suite, e) ==
    TestResult(suite.name, "error", "error", 0,
               Msg("{name} failed with exception: {exc}", suite.name, 0, e),
               None, None, Some(e))

\* except Exception as e
ExceptionResult(suite, e) ==
    TestResult(suite.name, suite.type, "error", 0,
               Msg("{name} failed with exception: {exc}", suite.name, 0, e),
               None, None, Some(e))

\* run_all_tests, except Exception as e around future.result()
UnknownResult(e) ==
    TestResult("Unknown", "error", "error", 0, Msg("{exc}", "", 0, e),
               None, None, Some(e))

RunResult(suite, run) ==
    IF run.kind = "timeout" THEN TimeoutResult(suite) ELSE ExitResult(suite, run)

\* The exceptions of the model, by their text
UnboundError == "cannot access local variable 'original_dir'"
ChdirError == "[Errno 2] No such file or directory: working_dir"
LaunchError == "[Errno 2] No such file or directory: command"
RestoreError == "[Errno 2] No such file or directory: original_dir"

(***************************************************************************)
(* State                                                                   *)
(***************************************************************************)
VARIABLES
    test_suites,      \* self.test_suites: the catalogue
    filtered_suites,  \* run_all_tests: the selected suites, in order
    main_pc,          \* where the main thread is
    work_queue,       \* the executor's queue of submitted, unstarted suites
    pc,               \* per suite: where its _run_test_suite call is
    original_dir,     \* per suite: the local original_dir, once bound
    child,            \* per suite: how its child process ended, until the call returns
    future,           \* per suite: its future's state, result or exception
    cwd,              \* the working directory of the process
    finished,         \* as_completed: futures found finished at the call
    waiter,           \* as_completed: futures finished since, in order
    results,          \* self.results
    report,           \* the report run_all_tests returned, if it did
    interrupt,        \* "no", or how the one SIGINT was delivered
    exit_code,        \* the status the process exited with, if it did
    removed,          \* the directories removed since the run started
    completed,        \* the suites whose call ended and whose future is not
                      \* collected yet, in the order in which the calls ended
    xml_report,       \* test_report.xml, once _save_reports wrote it
    extraction,       \* one call of _extract_coverage: arguments and return
    measurement,      \* one call of _extract_performance_metrics, likewise
    call              \* the calls of run_all_tests on this orchestrator: how
                      \* many were made, and how many results self.results
                      \* held when the present one began

vars == << test_suites, filtered_suites, main_pc, work_queue, pc, original_dir, child,
           future, cwd,
           finished, waiter, results, report, interrupt, exit_code, removed,
           completed, xml_report, extraction, measurement, call >>

NoResult == TestResult("", "", "", 0, Msg("", "", 0, ""), None, None, None)

Pending == [state |-> "pending", result |-> NoResult, exception |-> ""]
Returned(r) == [state |-> "result", result |-> r, exception |-> ""]
Raised(e) == [state |-> "exception", result |-> NoResult, exception |-> e]

\* _extract_coverage(output, test_type) before and after it returns
Called(output, test_type) ==
    [output |-> output, test_type |-> test_type, returned |-> FALSE, coverage |-> None]

NoExtraction == Called(<< >>, "")

\* _extract_performance_metrics(output) before and after it returns
Measured(output) == [output |-> output, returned |-> FALSE, metrics |-> None]

NoMeasurement == Measured(<< >>)

\* main calls run_all_tests once, on a new orchestrator
FirstCall == [n |-> 1, previous |-> 0]

Init ==
    /\ test_suites \in Catalogues
    /\ filtered_suites \in {Filter(test_suites, include) : include \in Selections}
    /\ main_pc = "submit"
    /\ work_queue = << >>
    /\ pc = [s \in DOMAIN test_suites |-> "unsubmitted"]
    /\ original_dir = [s \in DOMAIN test_suites |-> None]
    /\ child = [s \in DOMAIN test_suites |-> None]
    /\ future = [s \in DOMAIN test_suites |-> Pending]
    /\ cwd = StartDir
    /\ finished = {}
    /\ waiter = << >>
    /\ results = << >>
    /\ report = None
    /\ interrupt = "no"
    /\ exit_code = None
    /\ removed = {}
    /\ completed = << >>
    /\ xml_report = None
    /\ extraction = NoExtraction
    /\ measurement = NoMeasurement
    /\ call = FirstCall

Suites == DOMAIN test_suites

Range(seq) == {seq[i] : i \in 1..Len(seq)}

\* The suites whose _run_test_suite call has started and not returned
Executing == {s \in Suites : pc[s] \in {"gotcwd", "chdird", "running", "ended"}}

Submitted == {s \in Suites : pc[s] # "unsubmitted"}

\* WorkerFree with a pool one thread too wide
WorkerFreeOffByOne == Cardinality(Executing) <= MaxWorkers

\* A worker thread is free to take the next work item
WorkerFree == Cardinality(Executing) < MaxWorkers

\* The directories the run works in: the one it starts in and those the
\* suites name
RunDirs == {StartDir} \cup ({test_suites[s].working_dir : s \in Suites} \ {"."})

Exists(dir) == dir \notin removed

\* The future of s is set; as_completed's waiter hears of it once installed
Complete(s, f) ==
    /\ future' = [future EXCEPT ![s] = f]
    /\ pc' = [pc EXCEPT ![s] = "done"]
    /\ waiter' = IF main_pc = "collect" THEN Append(waiter, s) ELSE waiter
    /\ completed' = Append(completed, s)


(***************************************************************************)
(* _run_test_suite, in a worker thread                                     *)
(***************************************************************************)
OriginalDir(s) == CHOOSE d \in original_dir[s] : TRUE

\* finally: os.chdir(original_dir), and then the return of `result` takes
\* effect, unless the chdir raises: then its exception leaves the call.
Restore(s, result) ==
    IF Exists(OriginalDir(s))
    THEN /\ cwd' = OriginalDir(s)
         /\ Complete(s, Returned(result))
    ELSE /\ Complete(s, Raised(RestoreError))
         /\ UNCHANGED cwd

\* A worker takes the next work item and calls _run_test_suite, which reads
\* the current directory.  When os.getcwd() raises, `except Exception` builds
\* an error result, and the finally clause then reads original_dir, which
\* was never bound.
Start(s) ==
    /\ work_queue # << >>
    /\ Head(work_queue) = s
    /\ WorkerFree
    /\ work_queue' = Tail(work_queue)
    /\ IF Exists(cwd)
       THEN /\ original_dir' = [original_dir EXCEPT ![s] = Some(cwd)]
            /\ pc' = [pc EXCEPT ![s] = "gotcwd"]
            /\ UNCHANGED << future, waiter, completed >>
       ELSE /\ Complete(s, Raised(UnboundError))
            /\ UNCHANGED original_dir
    /\ UNCHANGED << extraction, measurement, call, xml_report, test_suites, filtered_suites, main_pc, child, cwd, finished, results,
                    report, interrupt, exit_code, removed >>

\* Whether os.chdir(path) succeeds.  chdir(".") in a directory that was
\* removed succeeds or fails, depending on the platform.
ChdirOutcomes(path) ==
    IF path = "." THEN (IF Exists(cwd) THEN {TRUE} ELSE {TRUE, FALSE})
    ELSE {Exists(path)}

\* os.chdir(suite.working_dir)
Chdir(s) ==
    /\ pc[s] = "gotcwd"
    /\ \E ok \in ChdirOutcomes(test_suites[s].working_dir) :
          IF ok
          THEN /\ cwd' = ChdirTarget(cwd, test_suites[s].working_dir)
               /\ pc' = [pc EXCEPT ![s] = "chdird"]
               /\ UNCHANGED << future, waiter, completed >>
          ELSE Restore(s, ExceptionResult(test_suites[s], ChdirError))
    /\ UNCHANGED << extraction, measurement, call, xml_report, test_suites, filtered_suites, main_pc, work_queue, original_dir, child,
                    finished, results, report, interrupt, exit_code, removed >>

\* subprocess.run starts the child, which inherits the directory the
\* process is in at that moment
Launch(s) ==
    /\ pc[s] = "chdird"
    /\ \E ok \in Launchable(test_suites[s].command) :
          IF ok
          THEN /\ pc' = [pc EXCEPT ![s] = "running"]
               /\ UNCHANGED << future, waiter, completed, cwd >>
          ELSE Restore(s, ExceptionResult(test_suites[s], LaunchError))
    /\ UNCHANGED << extraction, measurement, call, xml_report, test_suites, filtered_suites, main_pc, work_queue, original_dir, child,
                    finished, results, report, interrupt, exit_code, removed >>

\* subprocess.run returns or raises TimeoutExpired: the child has exited or
\* was cut off at the timeout
ChildEnds(s) ==
    /\ pc[s] = "running"
    /\ \E run \in ChildRuns(test_suites[s].command) :
          child' = [child EXCEPT ![s] = Some(run)]
    /\ pc' = [pc EXCEPT ![s] = "ended"]
    /\ UNCHANGED << extraction, measurement, call, xml_report, test_suites, filtered_suites, main_pc, work_queue, original_dir,
                    future, cwd, finished, waiter, completed, results, report, interrupt,
                    exit_code, removed >>

ChildOf(s) == CHOOSE run \in child[s] : TRUE

\* The result is built from what the child did, and the finally clause
\* restores the directory on the way out
Finish(s) ==
    /\ pc[s] = "ended"
    /\ Restore(s, RunResult(test_suites[s], ChildOf(s)))
    /\ child' = [child EXCEPT ![s] = None]
    /\ UNCHANGED << extraction, measurement, call, xml_report, test_suites, filtered_suites, main_pc, work_queue, original_dir,
                    finished, results, report, interrupt, exit_code, removed >>

\* The environment removes a directory that the run works in, while a
\* suite is still to run or running
RemoveDir(dir) ==
    /\ \E s \in Range(filtered_suites) : pc[s] \notin {"done", "collected"}
    /\ main_pc # "exited"
    /\ dir \in RunDirs \ removed
    /\ Cardinality(removed) < MaxRemovals
    /\ removed' = removed \cup {dir}
    /\ UNCHANGED << extraction, measurement, call, xml_report, test_suites, filtered_suites, main_pc, work_queue, pc,
                    original_dir, child, future, cwd, finished, waiter, completed, results, report,
                    interrupt, exit_code >>

(***************************************************************************)
(* run_all_tests and main, in the main thread                              *)
(***************************************************************************)
\* NextToSubmit for a loop that stays at the suite it submitted last
NextToSubmitSameAgain == IF Submitted = {} THEN 1 ELSE Cardinality(Submitted)

NextToSubmit == Cardinality(Submitted) + 1

\* executor.submit(self._run_test_suite, suite)
Submit ==
    /\ main_pc = "submit"
    /\ NextToSubmit <= Len(filtered_suites)
    /\ LET s == filtered_suites[NextToSubmit]
       IN  /\ pc' = [pc EXCEPT ![s] = "queued"]
           /\ work_queue' = Append(work_queue, s)
    /\ UNCHANGED << extraction, measurement, call, xml_report, test_suites, filtered_suites, main_pc, original_dir, child, future, cwd, finished,
                    waiter, completed, results, report, interrupt, exit_code, removed >>

\* as_completed(futures): the futures already finished are a set, served
\* first in no particular order; the waiter lists the others as they finish
AsCompleted ==
    /\ main_pc = "submit"
    /\ NextToSubmit > Len(filtered_suites)
    /\ finished' = {s \in Range(filtered_suites) : pc[s] = "done"}
    /\ main_pc' = "collect"
    /\ UNCHANGED << extraction, measurement, call, xml_report, test_suites, filtered_suites, work_queue, pc, original_dir, child, future, cwd,
                    waiter, completed, results, report, interrupt, exit_code, removed >>

\* Collected without the except clause
CollectedIgnoresException(f) == f.result

\* The body of the loop over as_completed
Collected(f) ==
    IF f.state = "result" THEN f.result ELSE UnknownResult(f.exception)

Collect(s) ==
    /\ main_pc = "collect"
    /\ \/ s \in finished
       \/ finished = {} /\ waiter # << >> /\ Head(waiter) = s
    /\ finished' = finished \ {s}
    /\ waiter' = IF s \in finished THEN waiter ELSE Tail(waiter)
    /\ completed' = SelectSeq(completed, LAMBDA c : c # s)
    /\ results' = Append(results, Collected(future[s]))
    /\ pc' = [pc EXCEPT ![s] = "collected"]
    /\ UNCHANGED << extraction, measurement, call, xml_report, test_suites, filtered_suites, main_pc, work_queue, original_dir, child, future, cwd,
                    report, interrupt, exit_code, removed >>

CountStatus(rs, status) == Cardinality({i \in 1..Len(rs) : rs[i].status = status})

\* A quotient of two integers, kept exact
Frac(n, d) == [num |-> n, den |-> d]

\* A number of the source's unit, in tenths
Tenths(x) == 10 * x

\* sum(r.coverage for r in coverage_results), in tenths
RECURSIVE SumCoverage(_)
SumCoverage(rs) ==
    IF rs = << >> THEN 0
    ELSE (CHOOSE c \in Head(rs).coverage : TRUE) + SumCoverage(Tail(rs))

HasCoverage(r) == r.coverage # None

CoverageOf(r) == CHOOSE c \in r.coverage : TRUE

\* `r.coverage and r.coverage < 80`: a coverage of 0.0 is falsy
LowCoverage(r) ==
    /\ r.coverage # None
    /\ CoverageOf(r) # 0
    /\ CoverageOf(r) < Tenths(80)

\* self.performance_benchmarks
performance_benchmarks ==
    [tinyurl       |-> [max_latency_ms |-> 100, min_throughput_rps |-> 1000],
     newsfeed      |-> [max_latency_ms |-> 200, min_throughput_rps |-> 500],
     google_docs   |-> [max_latency_ms |-> 300, min_throughput_rps |-> 200],
     quora         |-> [max_latency_ms |-> 150, min_throughput_rps |-> 800],
     load_balancer |-> [max_latency_ms |-> 50, min_throughput_rps |-> 2000],
     monitoring    |-> [max_latency_ms |-> 100, min_throughput_rps |-> 1000],
     typeahead     |-> [max_latency_ms |-> 50, min_throughput_rps |-> 5000],
     messaging     |-> [max_latency_ms |-> 100, min_throughput_rps |-> 1000],
     web_crawler   |-> [max_latency_ms |-> 500, min_throughput_rps |-> 100],
     dns           |-> [max_latency_ms |-> 10, min_throughput_rps |-> 10000]]

\* A suite name as the words a space separates
NameWords(name) ==
    CASE name = "TinyURL System Tests" -> << "TinyURL", "System", "Tests" >>
      [] name = "Google Docs System Tests" -> << "Google", "Docs", "System", "Tests" >>
      [] name = "Load Balancer System Tests" -> << "Load", "Balancer", "System", "Tests" >>
      [] name = "Web Crawler System Tests" -> << "Web", "Crawler", "System", "Tests" >>
      [] name = "DNS System Tests" -> << "DNS", "System", "Tests" >>
      [] name = "Performance Tests" -> << "Performance", "Tests" >>
      [] name = "Backend Unit Tests" -> << "Backend", "Unit", "Tests" >>
      [] name = "Frontend Unit Tests" -> << "Frontend", "Unit", "Tests" >>
      [] name = "E2E Tests" -> << "E2E", "Tests" >>
      [] name = "Integration Tests" -> << "Integration", "Tests" >>
      [] name = "Java Unit Tests" -> << "Java", "Unit", "Tests" >>
      [] name = "Java Integration Tests" -> << "Java", "Integration", "Tests" >>
      [] name = "Go Unit Tests" -> << "Go", "Unit", "Tests" >>
      [] name = "Go Integration Tests" -> << "Go", "Integration", "Tests" >>
      [] name = "Newsfeed System Tests" -> << "Newsfeed", "System", "Tests" >>
      [] name = "Quora System Tests" -> << "Quora", "System", "Tests" >>
      [] name = "Monitoring System Tests" -> << "Monitoring", "System", "Tests" >>
      [] name = "Typeahead System Tests" -> << "Typeahead", "System", "Tests" >>
      [] name = "Messaging System Tests" -> << "Messaging", "System", "Tests" >>
      [] OTHER -> << name >>

\* str.lower() on the words of suite names
LowerWord(w) ==
    CASE w = "TinyURL" -> "tinyurl"
      [] w = "Google" -> "google"
      [] w = "Docs" -> "docs"
      [] w = "Load" -> "load"
      [] w = "Balancer" -> "balancer"
      [] w = "Web" -> "web"
      [] w = "Crawler" -> "crawler"
      [] w = "DNS" -> "dns"
      [] w = "System" -> "system"
      [] w = "Tests" -> "tests"
      [] w = "Performance" -> "performance"
      [] w = "Backend" -> "backend"
      [] w = "Frontend" -> "frontend"
      [] w = "Unit" -> "unit"
      [] w = "E2E" -> "e2e"
      [] w = "Unknown" -> "unknown"
      [] w = "Integration" -> "integration"
      [] w = "Java" -> "java"
      [] w = "Go" -> "go"
      [] w = "Newsfeed" -> "newsfeed"
      [] w = "Quora" -> "quora"
      [] w = "Monitoring" -> "monitoring"
      [] w = "Typeahead" -> "typeahead"
      [] w = "Messaging" -> "messaging"
      [] OTHER -> w

\* result.name.lower().replace(" system tests", ""), as the words that
\* single spaces separate in the resulting string
system_name(name) ==
    LET ws == [i \in 1..Len(NameWords(name)) |-> LowerWord(NameWords(name)[i])]
        n == Len(ws)
    IN  IF n >= 3 /\ ws[n - 1] = "system" /\ ws[n] = "tests"
        THEN SubSeq(ws, 1, n - 2)
        ELSE ws

\* `system_name in self.performance_benchmarks`: a key of the dictionary has
\* no space in it, so only a one-word string can equal it
InBenchmarks(sn) == Len(sn) = 1 /\ sn[1] \in DOMAIN performance_benchmarks

\* The bottleneck lines one result adds, latency first
ResultBottlenecks(r) ==
    LET m == CHOOSE d \in r.performance_metrics : TRUE
        sn == system_name(r.name)
        benchmark == performance_benchmarks[sn[1]]
        high == IF /\ "latency_ms" \in DOMAIN m
                   /\ m["latency_ms"] > Tenths(benchmark.max_latency_ms)
                THEN << [system |-> sn, fmt |-> "{system}: High latency ({value}ms)",
                         value |-> m["latency_ms"]] >>
                ELSE << >>
        low == IF /\ "throughput_rps" \in DOMAIN m
                  /\ m["throughput_rps"] < Tenths(benchmark.min_throughput_rps)
               THEN << [system |-> sn, fmt |-> "{system}: Low throughput ({value} rps)",
                        value |-> m["throughput_rps"]] >>
               ELSE << >>
    IN  IF r.performance_metrics # None /\ InBenchmarks(sn) THEN high \o low ELSE << >>

RECURSIVE Bottlenecks(_)
Bottlenecks(rs) ==
    IF rs = << >> THEN << >>
    ELSE ResultBottlenecks(Head(rs)) \o Bottlenecks(Tail(rs))

_analyze_performance(performance_results) ==
    LET bottlenecks == Bottlenecks(performance_results)
    IN  [overall_performance |-> IF bottlenecks # << >> THEN "needs_improvement"
                                 ELSE "good",
         bottlenecks |-> bottlenecks,
         recommendations |->
             IF bottlenecks # << >>
             THEN << "Consider optimizing systems with performance bottlenecks" >>
             ELSE << >>]

\* The name of each result of the list, in order
RECURSIVE Names(_)
Names(rs) == IF rs = << >> THEN << >> ELSE << Head(rs).name >> \o Names(Tail(rs))

\* The dictionary _analyze_coverage returns; a key the dictionary lacks is an
\* empty field here
_analyze_coverage(coverage_results) ==
    LET n == Len(coverage_results)
        sum == SumCoverage(coverage_results)
        values == {CoverageOf(coverage_results[i]) : i \in 1..n}
    IN  IF n = 0
        THEN [status |-> Some("no_coverage_data"),
              recommendations |-> << "Enable coverage reporting" >>,
              average_coverage |-> None,
              min_coverage |-> None,
              max_coverage |-> None,
              coverage_status |-> None,
              low_coverage_tests |-> << >>]
        ELSE [status |-> None,
              recommendations |-> << >>,
              average_coverage |-> Some(Frac(sum, n)),
              min_coverage |-> Some(CHOOSE v \in values : \A w \in values : v <= w),
              max_coverage |-> Some(CHOOSE v \in values : \A w \in values : v >= w),
              coverage_status |-> Some(IF sum >= Tenths(90) * n THEN "excellent"
                                       ELSE IF sum >= Tenths(80) * n THEN "good"
                                       ELSE "needs_improvement"),
              low_coverage_tests |-> Names(SelectSeq(coverage_results, LowCoverage))]

SlowTest(r) == r.duration > 60

ErrorTest(r) == r.status = "error"

\* Each rule that applies adds one line, which carries a count
_generate_recommendations(rs) ==
    LET low_coverage == SelectSeq(rs, LowCoverage)
        slow_tests == SelectSeq(rs, SlowTest)
        error_tests == SelectSeq(rs, ErrorTest)
        recommendations ==
            (IF low_coverage # << >>
             THEN << [fmt |-> "Improve test coverage for {num} test suites",
                      num |-> Len(low_coverage)] >>
             ELSE << >>)
            \o (IF slow_tests # << >>
                THEN << [fmt |-> "Optimize {num} slow-running tests",
                         num |-> Len(slow_tests)] >>
                ELSE << >>)
            \o (IF error_tests # << >>
                THEN << [fmt |-> "Fix {num} test errors", num |-> Len(error_tests)] >>
                ELSE << >>)
    IN  IF recommendations = << >>
        THEN << [fmt |-> "All tests are performing well!", num |-> 0] >>
        ELSE recommendations

\* success_rate computed as passed / total, without the factor 100
success_rateAsFraction(passed_tests, total_tests) ==
    IF total_tests > 0 THEN Frac(passed_tests, total_tests) ELSE Frac(0, 1)

\* (passed_tests / total_tests * 100) if total_tests > 0 else 0
success_rate(passed_tests, total_tests) ==
    IF total_tests > 0 THEN Frac(passed_tests * 100, total_tests) ELSE Frac(0, 1)

\* sum(...) / len(coverage_results) if coverage_results else 0: always a
\* number, in tenths
avg_coverage(coverage_results) ==
    IF coverage_results # << >>
    THEN Frac(SumCoverage(coverage_results), Len(coverage_results))
    ELSE Frac(0, 1)

HasMetrics(r) == r.performance_metrics # None

_generate_comprehensive_report(rs) ==
    [summary |-> [total_tests |-> Len(rs),
                  passed |-> CountStatus(rs, "passed"),
                  failed |-> CountStatus(rs, "failed"),
                  errors |-> CountStatus(rs, "error"),
                  skipped |-> CountStatus(rs, "skipped"),
                  success_rate |-> success_rate(CountStatus(rs, "passed"), Len(rs)),
                  average_coverage |-> Some(avg_coverage(SelectSeq(rs, HasCoverage)))],
     test_results |-> rs,
     performance_analysis |-> _analyze_performance(SelectSeq(rs, HasMetrics)),
     coverage_analysis |-> _analyze_coverage(SelectSeq(rs, HasCoverage)),
     recommendations |-> _generate_recommendations(rs)]

\* str(n) for a count: its decimal digits
RECURSIVE str(_)
str(n) == IF n < 10 THEN << n >> ELSE Append(str(n \div 10), n % 10)

\* NeedsFailure for a report that marks only failed outcomes
NeedsFailureFailedOnly(status) == status = "failed"

\* The condition under which a testcase gets a failure element
NeedsFailure(status) == status \in {"failed", "error"}

\* The testsuite element of one result, with its testcase
XmlTestsuite(result) ==
    [name |-> result.name,
     tests |-> str(1),
     failures |-> IF result.status = "failed" THEN str(1) ELSE str(0),
     errors |-> IF result.status = "error" THEN str(1) ELSE str(0),
     testcase |->
         [name |-> result.name,
          failure |->
              IF NeedsFailure(result.status)
              THEN Some([message |-> result.message,
                         text |-> IF result.error_details \notin {None, Some("")}
                                  THEN result.error_details ELSE None])
              ELSE None]]

\* The element tree _generate_xml_report writes
_generate_xml_report(rep) ==
    [name |-> "K8s Playgrounds Tests",
     tests |-> str(rep.summary.total_tests),
     failures |-> str(rep.summary.failed),
     errors |-> str(rep.summary.errors),
     testsuites |-> [i \in 1..Len(rep.test_results) |-> XmlTestsuite(rep.test_results[i])]]

\* AllCollected for a loop that ends when no future is ready at the moment
AllCollectedNoWait == finished = {} /\ waiter = << >>

\* as_completed is exhausted: every future was yielded and handled
AllCollected == \A s \in Range(filtered_suites) : pc[s] = "collected"

\* The loop over as_completed ends, the with block is left and the report is
\* generated and saved; saving may fail, which main reports with status 1
Return ==
    /\ main_pc = "collect"
    /\ AllCollected
    /\ \/ /\ report' = Some(_generate_comprehensive_report(results))
          /\ xml_report' = Some(_generate_xml_report(_generate_comprehensive_report(results)))
          /\ main_pc' = "returned"
          /\ UNCHANGED exit_code
       \/ /\ main_pc' = "exited"
          /\ exit_code' = Some(1)
          /\ UNCHANGED << report, xml_report >>
    /\ UNCHANGED << extraction, measurement, call, test_suites, filtered_suites, work_queue, pc, original_dir, child, future, cwd,
                    finished, waiter, completed, results, interrupt, removed >>

\* main: sys.exit(1) when the report counts a failure or an error, else
\* sys.exit(0); a cancellation requested while the coroutine ran surfaces
\* as KeyboardInterrupt when it returns
ExitStatusFailedOnly(rep) ==
    IF rep.summary.failed > 0 THEN 1 ELSE 0

ExitStatus(rep) ==
    IF rep.summary.failed > 0 \/ rep.summary.errors > 0 THEN 1 ELSE 0

Exit ==
    /\ main_pc = "returned"
    /\ main_pc' = "exited"
    /\ exit_code' = IF interrupt = "deferred" THEN Some(130)
                    ELSE Some(ExitStatus(CHOOSE r \in report : TRUE))
    /\ UNCHANGED << extraction, measurement, call, xml_report, test_suites, filtered_suites, work_queue, pc, original_dir, child, future, cwd,
                    finished, waiter, completed, results, report, interrupt, removed >>

\* The user's SIGINT.  asyncio.run installs a handler for the time the
\* coroutine runs: the first signal requests the cancellation of the main
\* task, which the coroutine, never awaiting, does not see; the next one
\* raises KeyboardInterrupt in the main thread, which leaves the with block
\* through ThreadPoolExecutor.__exit__.  Once run_all_tests has returned, the
\* default handler raises KeyboardInterrupt in main.
Interrupt ==
    /\ \/ /\ interrupt = "no"
          /\ main_pc \in {"submit", "collect"}
          /\ interrupt' = "deferred"
          /\ UNCHANGED << main_pc, exit_code >>
       \/ /\ interrupt = "deferred"
          /\ main_pc \in {"submit", "collect"}
          /\ interrupt' = "raised"
          /\ main_pc' = "shutdown"
          /\ UNCHANGED exit_code
       \/ /\ interrupt = "no"
          /\ main_pc = "returned"
          /\ interrupt' = "raised"
          /\ main_pc' = "exited"
          /\ exit_code' = Some(130)
    /\ UNCHANGED << extraction, measurement, call, xml_report, test_suites, filtered_suites, work_queue, pc, original_dir, child,
                    future, cwd, finished, waiter, completed, results, report, removed >>

\* ThreadPoolExecutor.__exit__ is shutdown(wait=True): the workers drain the
\* queue and are joined; then main catches KeyboardInterrupt
ShutdownDone ==
    /\ main_pc = "shutdown"
    /\ work_queue = << >>
    /\ Executing = {}
    /\ main_pc' = "exited"
    /\ exit_code' = Some(130)
    /\ UNCHANGED << extraction, measurement, call, xml_report, test_suites, filtered_suites, work_queue, pc, original_dir, child, future, cwd,
                    finished, waiter, completed, results, report, interrupt, removed >>

Next ==
    \/ Submit
    \/ AsCompleted
    \/ \E s \in Suites : Start(s)
    \/ \E s \in Suites : Chdir(s)
    \/ \E s \in Suites : Launch(s)
    \/ \E s \in Suites : ChildEnds(s)
    \/ \E s \in Suites : Finish(s)
    \/ \E s \in Suites : Collect(s)
    \/ Return
    \/ Exit
    \/ Interrupt
    \/ ShutdownDone
    \/ \E dir \in RunDirs : RemoveDir(dir)

Spec == Init /\ [][Next]_vars

\* How many times run_all_tests is called on one orchestrator
MaxCalls == 2

\* Two suites for an orchestrator whose run_all_tests is called again
ReuseCatalogue ==
    << Suite("Backend Unit Tests", "unit", "npm test", "."),
       Suite("Performance Tests", "performance", "exit 7", ".") >>

ReuseInit ==
    /\ test_suites = ReuseCatalogue
    /\ filtered_suites \in {Filter(test_suites, include) : include \in Selections}
    /\ main_pc = "submit"
    /\ work_queue = << >>
    /\ pc = [s \in DOMAIN test_suites |-> "unsubmitted"]
    /\ original_dir = [s \in DOMAIN test_suites |-> None]
    /\ child = [s \in DOMAIN test_suites |-> None]
    /\ future = [s \in DOMAIN test_suites |-> Pending]
    /\ cwd = StartDir
    /\ finished = {}
    /\ waiter = << >>
    /\ results = << >>
    /\ report = None
    /\ interrupt = "no"
    /\ exit_code = None
    /\ removed = {}
    /\ completed = << >>
    /\ xml_report = None
    /\ extraction = NoExtraction
    /\ measurement = NoMeasurement
    /\ call = FirstCall

\* run_all_tests is called again on the orchestrator whose earlier call has
\* returned: the suites are filtered anew and a new pool with new futures is
\* made; self.results, assigned in __init__ alone, is what the earlier call
\* left, and the report files stay on disk until they are written again
CallAgain ==
    /\ main_pc = "returned"
    /\ call.n < MaxCalls
    /\ call' = [n |-> call.n + 1, previous |-> Len(results)]
    /\ filtered_suites' \in {Filter(test_suites, include) : include \in Selections}
    /\ main_pc' = "submit"
    /\ work_queue' = << >>
    /\ pc' = [s \in DOMAIN test_suites |-> "unsubmitted"]
    /\ original_dir' = [s \in DOMAIN test_suites |-> None]
    /\ child' = [s \in DOMAIN test_suites |-> None]
    /\ future' = [s \in DOMAIN test_suites |-> Pending]
    /\ finished' = {}
    /\ waiter' = << >>
    /\ completed' = << >>
    /\ report' = None
    /\ UNCHANGED << test_suites, cwd, results, interrupt, exit_code, removed, xml_report,
                    extraction, measurement >>

ReuseNext ==
    \/ Submit
    \/ AsCompleted
    \/ \E s \in Suites : Start(s)
    \/ \E s \in Suites : Chdir(s)
    \/ \E s \in Suites : Launch(s)
    \/ \E s \in Suites : ChildEnds(s)
    \/ \E s \in Suites : Finish(s)
    \/ \E s \in Suites : Collect(s)
    \/ Return
    \/ CallAgain

ReuseSpec == ReuseInit /\ [][ReuseNext]_vars

\* Three suites for the runs whose end is looked at: one of unknown
\* behaviour, one that hangs until its timeout, in a directory of its own,
\* and one that fails
LiveCatalogue ==
    << Suite("Backend Unit Tests", "unit", "npm test", "."),
       Suite("E2E Tests", "e2e", "sleep", "/a"),
       Suite("Frontend Unit Tests", "unit", "exit 7", ".") >>

\* The numbers that the suites of that catalogue have
SuiteIds == 1..Len(LiveCatalogue)

LiveInit ==
    /\ test_suites = LiveCatalogue
    /\ filtered_suites \in {Filter(test_suites, include) : include \in Selections}
    /\ main_pc = "submit"
    /\ work_queue = << >>
    /\ pc = [s \in DOMAIN test_suites |-> "unsubmitted"]
    /\ original_dir = [s \in DOMAIN test_suites |-> None]
    /\ child = [s \in DOMAIN test_suites |-> None]
    /\ future = [s \in DOMAIN test_suites |-> Pending]
    /\ cwd = StartDir
    /\ finished = {}
    /\ waiter = << >>
    /\ results = << >>
    /\ report = None
    /\ interrupt = "no"
    /\ exit_code = None
    /\ removed = {}
    /\ completed = << >>
    /\ xml_report = None
    /\ extraction = NoExtraction
    /\ measurement = NoMeasurement
    /\ call = FirstCall

\* The threads get to run: a worker that can take a step of _run_test_suite
\* takes it, subprocess.run ends when the child exits or at the timeout
\* (lines 313-318), and the main thread goes on whenever it is not waiting.
\* Nothing is assumed of the user or of the file system.
Fairness ==
    /\ \A s \in SuiteIds :
           /\ WF_vars(s \in Suites /\ Start(s))
           /\ WF_vars(s \in Suites /\ Chdir(s))
           /\ WF_vars(s \in Suites /\ Launch(s))
           /\ WF_vars(s \in Suites /\ ChildEnds(s))
           /\ WF_vars(s \in Suites /\ Finish(s))
           /\ WF_vars(s \in Suites /\ Collect(s))
    /\ WF_vars(Submit)
    /\ WF_vars(AsCompleted)
    /\ WF_vars(Return)
    /\ WF_vars(Exit)
    /\ WF_vars(ShutdownDone)

LiveSpec == LiveInit /\ [][Next]_vars /\ Fairness

(***************************************************************************)
(* The functions of the report and of the extraction, each on its own:     *)
(* a call is made with arguments drawn from samples, and returns.          *)
(***************************************************************************)
\* Bound: the number of lines of an output handed to _extract_coverage
MaxLines == 2

\* Bound: the number of outcomes in self.results when the report is built
MaxOutcomes == 2

\* Lines a suite may print
SampleLines ==
    { << Word("jest") >>,
      << Word("All files"), Word("|"), Num(850), Word("%"), Num(700), Word("%") >>,
      << Word("All files"), Word("|"), Num(1500), Word("%") >>,
      << Word("Total"), Num(875), Word("%") >>,
      << Word("coverage:"), Num(802), Word("%"), Word("of statements") >>,
      << Word("no coverage info here") >>,
      << Num(420), Word("%"), Word("done") >> }

\* The sequences of at most n elements of S
SeqsUpTo(S, n) == UNION {[1..k -> S] : k \in 0..n}

SampleOutputs == SeqsUpTo(SampleLines, MaxLines)

\* Values of TestSuite.type or of any other text passed as test_type
SampleTypes == {"unit", "performance", "mvn", "go test"}

\* The state of the orchestrator's run while a function is looked at alone
NoRun ==
    /\ test_suites = << >>
    /\ filtered_suites = << >>
    /\ work_queue = << >>
    /\ pc = << >>
    /\ original_dir = << >>
    /\ child = << >>
    /\ future = << >>
    /\ cwd = StartDir
    /\ finished = {}
    /\ waiter = << >>
    /\ completed = << >>
    /\ interrupt = "no"
    /\ exit_code = None
    /\ removed = {}
    /\ call = FirstCall

ExtractInit ==
    /\ NoRun
    /\ main_pc = "extract"
    /\ results = << >>
    /\ report = None
    /\ xml_report = None
    /\ measurement = NoMeasurement
    /\ extraction \in {Called(output, test_type) :
                          output \in SampleOutputs, test_type \in SampleTypes}

\* The call of _extract_coverage returns
ExtractCoverage ==
    /\ main_pc = "extract"
    /\ ~extraction.returned
    /\ extraction' = [extraction EXCEPT
                         !.returned = TRUE,
                         !.coverage = _extract_coverage(extraction.output,
                                                        extraction.test_type)]
    /\ UNCHANGED << test_suites, filtered_suites, main_pc, work_queue, pc, original_dir,
                    child, future, cwd, finished, waiter, results, report, interrupt,
                    exit_code, removed, completed, xml_report, measurement, call >>

ExtractNext == ExtractCoverage

ExtractSpec == ExtractInit /\ [][ExtractNext]_vars

\* Lines a performance suite may print
SampleMetricLines ==
    { << Word("latency"), Num(420), Word("ms") >>,
      << Word("Latency"), Num(550), Word("ms") >>,
      << Word("throughput"), Num(12000), Word("rps") >>,
      << Word("memory"), Num(5120), Word("mb") >>,
      << Word("elapsed"), Num(3000), Word("ms") >>,
      << Word("latency"), Word("high") >>,
      << Word("done") >> }

MetricsInit ==
    /\ NoRun
    /\ main_pc = "measure"
    /\ results = << >>
    /\ report = None
    /\ xml_report = None
    /\ extraction = NoExtraction
    /\ measurement \in {Measured(output) : output \in SeqsUpTo(SampleMetricLines, MaxLines)}

\* The call of _extract_performance_metrics returns
ExtractMetrics ==
    /\ main_pc = "measure"
    /\ ~measurement.returned
    /\ measurement' = [measurement EXCEPT
                          !.returned = TRUE,
                          !.metrics = _extract_performance_metrics(measurement.output)]
    /\ UNCHANGED << test_suites, filtered_suites, main_pc, work_queue, pc, original_dir,
                    child, future, cwd, finished, waiter, results, report, interrupt,
                    exit_code, removed, completed, xml_report, extraction, call >>

MetricsNext == ExtractMetrics

MetricsSpec == MetricsInit /\ [][MetricsNext]_vars

\* What the children of the sample suites print
FastOutput ==
    << << Word("jest"), Word("PASS") >>,
       << Word("All files"), Word("|"), Num(850), Word("%") >>,
       << Word("latency"), Num(50), Word("ms") >>,
       << Word("throughput"), Num(200000), Word("rps") >> >>

SlowOutput ==
    << << Word("jest"), Word("PASS") >>,
       << Word("All files"), Word("|"), Num(750), Word("%") >>,
       << Word("Latency"), Num(5000), Word("ms") >>,
       << Word("Throughput"), Num(1000), Word("rps") >> >>

UncoveredOutput ==
    << << Word("jest"), Word("PASS") >>,
       << Word("All files"), Word("|"), Num(0), Word("%") >> >>

SampleRuns ==
    { Exits(0, 2, FastOutput, ""),
      Exits(0, 61, SlowOutput, ""),
      Exits(0, 2, UncoveredOutput, ""),
      Exits(0, 2, << << Word("PASS") >> >>, ""),
      Exits(7, 2, SlowOutput, "boom"),
      Hangs }

SampleSuites ==
    { Suite("Backend Unit Tests", "unit", "npm test", "."),
      Suite("TinyURL System Tests", "performance", "npm test", "."),
      Suite("Google Docs System Tests", "performance", "npm test", ".") }

\* What the loop over as_completed can append to self.results
SampleOutcomes ==
    {RunResult(suite, run) : suite \in SampleSuites, run \in SampleRuns}
    \cup {UnknownResult(UnboundError)}

ReportInit ==
    /\ NoRun
    /\ main_pc = "report"
    /\ results \in SeqsUpTo(SampleOutcomes, MaxOutcomes)
    /\ report = None
    /\ xml_report = None
    /\ extraction = NoExtraction
    /\ measurement = NoMeasurement

\* _generate_comprehensive_report builds the report from self.results and
\* _save_reports writes it
GenerateReport ==
    /\ main_pc = "report"
    /\ report' = Some(_generate_comprehensive_report(results))
    /\ xml_report' = Some(_generate_xml_report(_generate_comprehensive_report(results)))
    /\ main_pc' = "returned"
    /\ UNCHANGED << test_suites, filtered_suites, work_queue, pc, original_dir, child,
                    future, cwd, finished, waiter, results, interrupt, exit_code,
                    removed, completed, extraction, measurement, call >>

ReportNext == GenerateReport

ReportSpec == ReportInit /\ [][ReportNext]_vars

\* The catalogue of _initialize_test_suites
ShippedCatalogue ==
    << Suite("Backend Unit Tests", "unit", "npm run test:backend", "."),
       Suite("Frontend Unit Tests", "unit", "npm run test:frontend", "."),
       Suite("E2E Tests", "e2e", "npm run test:e2e", "."),
       Suite("Integration Tests", "integration", "npm run test:integration", "."),
       Suite("Performance Tests", "performance", "npm run test:performance", "."),
       Suite("Java Unit Tests", "unit", "mvn test -Pcoverage", "."),
       Suite("Java Integration Tests", "integration", "mvn verify -Pcoverage", "."),
       Suite("Go Unit Tests", "unit", "go test ./operator/... -v -cover", "."),
       Suite("Go Integration Tests", "integration",
             "go test ./operator/... -tags=integration -v", "."),
       Suite("TinyURL System Tests", "system", "npm test systems/tinyurl-system/", "."),
       Suite("Newsfeed System Tests", "system", "npm test systems/newsfeed-system/", "."),
       Suite("Google Docs System Tests", "system",
             "npm test systems/google-docs-system/", "."),
       Suite("Quora System Tests", "system", "npm test systems/quora-system/", "."),
       Suite("Load Balancer System Tests", "system",
             "npm test systems/load-balancer-system/", "."),
       Suite("Monitoring System Tests", "system", "npm test systems/monitoring-system/", "."),
       Suite("Typeahead System Tests", "system", "npm test systems/typeahead-system/", "."),
       Suite("Messaging System Tests", "system", "npm test systems/messaging-system/", "."),
       Suite("Web Crawler System Tests", "system",
             "npm test systems/web-crawler-system/", "."),
       Suite("DNS System Tests", "system", "npm test systems/dns-system/", ".") >>

\* What a shipped suite's child may do: print figures within or beyond the
\* benchmarks and pass, print them and fail, or hang
ShippedRuns ==
    { Exits(0, 2, FastOutput, ""),
      Exits(0, 61, SlowOutput, ""),
      Exits(7, 2, SlowOutput, "boom"),
      Hangs }

\* What a run over the shipped catalogue can append to self.results
ShippedOutcomes ==
    {RunResult(ShippedCatalogue[s], run) : s \in DOMAIN ShippedCatalogue, run \in ShippedRuns}
    \cup {UnknownResult(UnboundError)}

ShippedInit ==
    /\ NoRun
    /\ main_pc = "report"
    /\ results \in SeqsUpTo(ShippedOutcomes, MaxOutcomes)
    /\ report = None
    /\ xml_report = None
    /\ extraction = NoExtraction
    /\ measurement = NoMeasurement

ShippedSpec == ShippedInit /\ [][ReportNext]_vars

(***************************************************************************)
(* Properties                                                              *)
(***************************************************************************)
Selected == Range(filtered_suites)

Indices(rs) == 1..Len(rs)

\* The directory a suite's command is meant to run in
OwnDir(s) == ChdirTarget(StartDir, test_suites[s].working_dir)

\* C1: when run_all_tests has collected the outcomes, there are as many as
\* selected suites, and every selected suite's name is on exactly one.
C1_OneOutcomePerSuite ==
    (\A s \in Selected : pc[s] = "collected") =>
        /\ Len(results) = Len(filtered_suites)
        /\ \A s \in Selected :
              Cardinality({i \in Indices(results) :
                              results[i].name = test_suites[s].name}) = 1

\* C2: whenever _run_test_suite returns a result after its child ended, the
\* status follows from how the child ended: exit code 0 gives passed, any
\* other exit code gives failed, and the timeout gives error with a message
\* that names the suite's timeout.
C2_ClassifiedByChildEnd ==
    [][\A s \in Suites :
          (pc[s] = "ended" /\ future'[s].state = "result") =>
              LET run == ChildOf(s)
                  r == future'[s].result
              IN  /\ (run.kind = "exit" /\ run.returncode = 0) => r.status = "passed"
                  /\ (run.kind = "exit" /\ run.returncode # 0) => r.status = "failed"
                  /\ run.kind = "timeout" =>
                        /\ r.status = "error"
                        /\ r.message.fmt = "{name} timed out after {num} seconds"
                        /\ r.message.num = test_suites[s].timeout]_vars

\* C2's case: a run in which one suite passed, one failed and one timed out
C2_Witness ==
    \E s1, s2, s3 \in Suites :
        /\ future[s1].state = "result" /\ future[s1].result.status = "passed"
        /\ future[s2].state = "result" /\ future[s2].result.status = "failed"
        /\ future[s3].state = "result" /\ future[s3].result.status = "error"
        /\ future[s3].result.message.num = DefaultTimeout

\* C3: no call of _run_test_suite ends with an exception: whatever fails,
\* the future holds a result.
C3_NeverRaises ==
    \A s \in Suites : future[s].state # "exception"

\* C4: in a run in which no directory is removed, once all outcomes are
\* collected the process is back in the directory it started in.
C4_DirectoryRestored ==
    ((\A s \in Selected : pc[s] = "collected") /\ removed = {}) => cwd = StartDir

\* C5: between a suite's chdir and the launch of its command no other suite
\* changes the process's directory, so the command is launched in the
\* suite's own working directory.
C5_LaunchedInOwnDir ==
    [][\A s \in Suites :
          /\ (pc[s] = "chdird" /\ pc'[s] = "chdird") => cwd' = cwd
          /\ (pc[s] = "chdird" /\ pc'[s] = "running" /\ removed = {}) =>
                cwd = OwnDir(s)]_vars

\* C6: at most four suites are executing at any moment.
C6_AtMostFourExecuting ==
    Cardinality({s \in Suites : pc[s] \in {"gotcwd", "chdird", "running", "ended"}}) <= 4

\* C6's case: four suites execute while a fifth waits in the queue
C6_Witness ==
    /\ Cardinality({s \in Suites : pc[s] \in {"gotcwd", "chdird", "running", "ended"}}) = 4
    /\ work_queue # << >>

\* C7: a report exists only when every selected suite was submitted, has
\* finished, and had its outcome collected into the results.
C7_ReportAfterAllCollected ==
    report # None =>
        /\ \A s \in Selected : pc[s] = "collected"
        /\ work_queue = << >>
        /\ Len(results) = Len(filtered_suites)
        /\ \A rep \in report : rep.test_results = results

\* C7's case: the report of a run of five suites
C7_Witness ==
    /\ report # None
    /\ Len(filtered_suites) = 5
    /\ Len(results) = 5

\* C8: for every future whose result() raised, the results hold an outcome
\* named "Unknown" with status error and the exception's text, one per such
\* future, and the loop has gone on: every future collected so far added
\* one outcome, and the report is built from all of them.
C8_UnknownOutcomeAndContinue ==
    LET raised == {s \in Suites : pc[s] = "collected" /\ future[s].state = "exception"}
        unknown == {i \in Indices(results) : results[i].name = "Unknown"}
    IN  /\ \A s \in raised :
              \E i \in unknown :
                  /\ results[i].status = "error"
                  /\ results[i].message.exc = future[s].exception
                  /\ results[i].error_details = {future[s].exception}
        /\ Cardinality(unknown) = Cardinality(raised)
        /\ Len(results) = Cardinality({s \in Suites : pc[s] = "collected"})
        /\ (raised # {} /\ main_pc = "returned") => Len(results) = Len(filtered_suites)

\* C8's case: an "Unknown" outcome was recorded, and a later future's result
\* was collected after it
C8_Witness ==
    \E i, j \in Indices(results) :
        /\ i < j
        /\ results[i].name = "Unknown"
        /\ results[j].name # "Unknown"
        /\ report # None

\* C9: once the user has interrupted the run, no suite that had not started
\* is started.
C9_NoLaunchAfterInterrupt ==
    [][interrupt = "raised" =>
          \A s \in Suites : pc[s] \in {"unsubmitted", "queued"} => pc'[s] = pc[s]]_vars

\* C10: the process exits with 0 exactly when run_all_tests returned its
\* report, no KeyboardInterrupt reached main and no outcome is failed or
\* error; with 1 when no KeyboardInterrupt reached main and some outcome is
\* failed or error; and with 130, which no other exit uses, exactly when a
\* KeyboardInterrupt reached main: raised during the run, or raised by
\* asyncio.run for a cancellation requested while the coroutine ran.
C10_ExitStatus ==
    main_pc = "exited" =>
        LET bad == \E i \in Indices(results) : results[i].status \in {"failed", "error"}
            interrupted == \/ interrupt = "raised"
                           \/ interrupt = "deferred" /\ report # None
        IN  /\ exit_code \in {{0}, {1}, {130}}
            /\ exit_code = {0} <=> (report # None /\ ~interrupted /\ ~bad)
            /\ (~interrupted /\ bad) => exit_code = {1}
            /\ exit_code = {130} <=> interrupted

\* C10's case: a run that exits with 0 after all its suites passed
C10_Witness ==
    /\ main_pc = "exited"
    /\ exit_code = {0}
    /\ Len(results) >= 2
    /\ \A i \in Indices(results) : results[i].status = "passed"

\* Further cases of C10: exit with 1 after a failure, and with 130
C10_WitnessFailed ==
    main_pc = "exited" /\ exit_code = {1} /\ report # None /\ interrupt = "no"

C10_WitnessInterrupted ==
    main_pc = "exited" /\ exit_code = {130} /\ interrupt = "raised" /\ report = None

C10_WitnessCancelled ==
    main_pc = "exited" /\ exit_code = {130} /\ interrupt = "deferred"

\* The number of outcomes of a list that have a status
Tally(rs, status) == Cardinality({i \in Indices(rs) : rs[i].status = status})

\* C11: the report's success_rate is passed / total * 100 of the collected
\* outcomes, and it is 0 when there is no outcome.
C11_SuccessRate ==
    \A rep \in report :
        LET rate == rep.summary.success_rate
        IN  /\ rate.den > 0
            /\ Len(results) = 0 => rate.num = 0
            /\ Len(results) > 0 =>
                   rate.num * Len(results) = Tally(results, "passed") * 100 * rate.den

\* C11's case: a report over two outcomes of which one passed
C11_Witness ==
    /\ report # None
    /\ Len(results) = 2
    /\ Tally(results, "passed") = 1

\* C11's other case: a report over no outcome
C11_WitnessEmpty ==
    report # None /\ results = << >>

\* C12: every collected outcome has one of the statuses passed, failed,
\* error, skipped, and in every report the four tallies add up to the number
\* of outcomes.
C12_StatusPartition ==
    /\ \A i \in Indices(results) :
           results[i].status \in {"passed", "failed", "error", "skipped"}
    /\ \A rep \in report :
           /\ rep.summary.total_tests = Len(results)
           /\ rep.summary.passed + rep.summary.failed + rep.summary.errors
                  + rep.summary.skipped = rep.summary.total_tests

\* C12's case: a report of a run that collected a passed, a failed and an
\* error outcome
C12_Witness ==
    /\ report # None
    /\ \A status \in {"passed", "failed", "error"} : Tally(results, status) > 0
    /\ \E i \in Indices(results) : results[i].name = "E2E Tests" /\ results[i].status = "error"

\* The key under which a logical system is registered: its name in lower
\* case with the spaces between its words normalized
RegisteredKey(sn) ==
    CASE sn = << "tinyurl" >> -> Some("tinyurl")
      [] sn = << "google", "docs" >> -> Some("google_docs")
      [] sn = << "load", "balancer" >> -> Some("load_balancer")
      [] sn = << "web", "crawler" >> -> Some("web_crawler")
      [] sn = << "dns" >> -> Some("dns")
      [] OTHER -> None

MetricsOf(r) == CHOOSE m \in r.performance_metrics : TRUE

\* Whether an outcome carries a latency above, or a throughput below, the
\* benchmark registered for its system
TooSlow(r) ==
    /\ r.performance_metrics # None
    /\ \E key \in RegisteredKey(system_name(r.name)) :
           /\ "latency_ms" \in DOMAIN MetricsOf(r)
           /\ MetricsOf(r)["latency_ms"] > Tenths(performance_benchmarks[key].max_latency_ms)

TooFew(r) ==
    /\ r.performance_metrics # None
    /\ \E key \in RegisteredKey(system_name(r.name)) :
           /\ "throughput_rps" \in DOMAIN MetricsOf(r)
           /\ MetricsOf(r)["throughput_rps"]
                  < Tenths(performance_benchmarks[key].min_throughput_rps)

\* C13: the bottleneck list has an entry for an outcome exactly when the
\* outcome carries a latency above its system's registered max_latency_ms
\* or a throughput below its system's registered min_throughput_rps; an
\* outcome without metrics gives no entry.
C13_BottleneckExactly ==
    \A rep \in report :
        LET entries == rep.performance_analysis.bottlenecks
            high == "{system}: High latency ({value}ms)"
            low == "{system}: Low throughput ({value} rps)"
        IN  /\ \A i \in Indices(results) :
                   /\ TooSlow(results[i]) =>
                          \E e \in Indices(entries) :
                              /\ entries[e].fmt = high
                              /\ entries[e].system = system_name(results[i].name)
                              /\ entries[e].value = MetricsOf(results[i])["latency_ms"]
                   /\ TooFew(results[i]) =>
                          \E e \in Indices(entries) :
                              /\ entries[e].fmt = low
                              /\ entries[e].system = system_name(results[i].name)
                              /\ entries[e].value = MetricsOf(results[i])["throughput_rps"]
            /\ \A e \in Indices(entries) :
                   \E i \in Indices(results) :
                       /\ entries[e].system = system_name(results[i].name)
                       /\ \/ entries[e].fmt = high /\ TooSlow(results[i])
                          \/ entries[e].fmt = low /\ TooFew(results[i])

\* C14: for every outcome with metrics whose suite is named "<System> System
\* Tests" after a system with a registered benchmark, the name derived from
\* the suite's name is found in the benchmarks.
C14_LookupFindsBenchmark ==
    report # None =>
        \A i \in Indices(results) :
            (/\ results[i].performance_metrics # None
             /\ RegisteredKey(system_name(results[i].name)) # None)
                => InBenchmarks(system_name(results[i].name))

\* The outcomes of a list that carry a coverage value
Covered(rs) == {i \in Indices(rs) : rs[i].coverage # None}

\* C15: the report's average coverage is the mean of the coverage values of
\* the outcomes that carry one, and it is absent when no outcome carries one.
C15_AverageCoverage ==
    \A rep \in report :
        LET average == rep.summary.average_coverage
            n == Cardinality(Covered(results))
        IN  /\ n = 0 => average = None
            /\ n > 0 => \E avg \in average :
                            /\ avg.den > 0
                            /\ avg.num * n
                                   = SumCoverage(SelectSeq(results, HasCoverage)) * avg.den

\* C17: the recommendations hold a low-coverage line exactly when some
\* outcome carries a coverage below 80, 0 included; a slow-test line exactly
\* when some outcome lasted more than 60 seconds; an error line exactly when
\* some outcome has status error; and they are the one positive statement
\* when none of the three applies.
C17_Recommendations ==
    \A rep \in report :
        LET lines == {rep.recommendations[k].fmt : k \in Indices(rep.recommendations)}
            low == \E i \in Covered(results) : CoverageOf(results[i]) < Tenths(80)
            slow == \E i \in Indices(results) : results[i].duration > 60
            err == \E i \in Indices(results) : results[i].status = "error"
        IN  /\ "Improve test coverage for {num} test suites" \in lines <=> low
            /\ "Optimize {num} slow-running tests" \in lines <=> slow
            /\ "Fix {num} test errors" \in lines <=> err
            /\ ~(low \/ slow \/ err) =>
                   /\ Len(rep.recommendations) = 1
                   /\ lines = {"All tests are performing well!"}

\* The number that a string of decimal digits denotes
RECURSIVE int(_)
int(digits) ==
    IF digits = << >> THEN 0
    ELSE 10 * int(SubSeq(digits, 1, Len(digits) - 1)) + digits[Len(digits)]

\* C19: the XML report has one testsuite element with one testcase element
\* per outcome, the testcase has a failure element exactly when the outcome
\* is failed or error, and the root's tests, failures and errors attributes
\* are the report's total, failed and error counts.
C19_XmlReport ==
    \A xml \in xml_report :
        /\ Len(xml.testsuites) = Len(results)
        /\ \A i \in Indices(results) :
               /\ xml.testsuites[i].name = results[i].name
               /\ xml.testsuites[i].testcase.name = results[i].name
               /\ xml.testsuites[i].testcase.failure # None
                      <=> results[i].status \in {"failed", "error"}
        /\ \A rep \in report :
               /\ int(xml.tests) = rep.summary.total_tests
               /\ int(xml.failures) = rep.summary.failed
               /\ int(xml.errors) = rep.summary.errors
        /\ int(xml.tests) = Len(results)
        /\ int(xml.failures) = Tally(results, "failed")
        /\ int(xml.errors) = Tally(results, "error")

\* C19's case: an XML report over a passed outcome, without failure element,
\* and an error outcome, with one
C19_Witness ==
    \E xml \in xml_report :
        /\ Len(xml.testsuites) = 2
        /\ results[1].status = "passed" /\ xml.testsuites[1].testcase.failure = None
        /\ results[2].status = "error" /\ xml.testsuites[2].testcase.failure # None

\* C16: a coverage value that _extract_coverage returns lies between 0 and
\* 100, whatever the output is.
C16_CoverageInRange ==
    extraction.returned =>
        \A c \in extraction.coverage : 0 <= c /\ c <= Tenths(100)

\* A line that carries a recognized marker: a totals line with a percentage,
\* or a line of the form `coverage: NN.N%`
Recognized(line) ==
    \/ /\ InLine("All files", line) \/ InLine("Total", line)
       /\ SearchPercent(line) # None
    \/ SearchGoCoverage(line) # None

\* The first percentage on a recognized line
FirstPercentage(line) ==
    IF SearchGoCoverage(line) # None /\ ~InLine("All files", line) /\ ~InLine("Total", line)
    THEN SearchGoCoverage(line)
    ELSE SearchPercent(line)

\* C18: _extract_coverage returns the first percentage of the first line, in
\* order, that carries a recognized marker, whatever test type is passed, and
\* absence when no line carries one.
C18_FirstMarkedPercentage ==
    extraction.returned =>
        LET output == extraction.output
            marked == {k \in Indices(output) : Recognized(output[k])}
        IN  extraction.coverage =
                IF marked = {} THEN None
                ELSE FirstPercentage(output[CHOOSE k \in marked : \A j \in marked : k <= j])

\* Suite a's call ended before suite b's, and neither outcome is collected
FinishedFirst(a, b) ==
    \E i, j \in Indices(completed) : i < j /\ completed[i] = a /\ completed[j] = b

\* C20: the outcomes are collected in the order of completion: an outcome
\* is never appended to the results while the outcome of a suite that
\* finished earlier is still to be collected.
C20_CompletionOrder ==
    [][\A a, b \in Suites :
           FinishedFirst(a, b) => ~(pc'[b] = "collected" /\ pc'[a] # "collected")]_vars

\* C21: an outcome carries a coverage value or performance metrics only if
\* its status is passed, and performance metrics only if its type is
\* performance.
C21_MetricsOnlyWhenPassed ==
    \A i \in Indices(results) :
        /\ (results[i].coverage # None \/ results[i].performance_metrics # None)
               => results[i].status = "passed"
        /\ results[i].performance_metrics # None => results[i].type = "performance"

\* How far the handling of a suite has come
Rank(position) ==
    CASE position = "unsubmitted" -> 0
      [] position = "queued" -> 1
      [] position = "gotcwd" -> 2
      [] position = "chdird" -> 3
      [] position = "running" -> 4
      [] position = "ended" -> 5
      [] position = "done" -> 6
      [] position = "collected" -> 7

\* C22: within a run the handling of a suite only moves forward: a suite is
\* put on the pool's queue only from not being submitted, its command is
\* launched only from the call that was started for that one submission, and
\* nothing ever takes a suite back, whatever its outcome; so each suite is
\* submitted once and launched at most once.
C22_NoRetry ==
    [][\A s \in Suites :
           /\ Rank(pc'[s]) >= Rank(pc[s])
           /\ (pc[s] = "unsubmitted" /\ pc'[s] # "unsubmitted") => pc'[s] = "queued"
           /\ (pc'[s] = "queued" /\ pc[s] # "queued") =>
                  /\ pc[s] = "unsubmitted"
                  /\ \A k \in Indices(work_queue) : work_queue[k] # s
           /\ (pc'[s] = "running" /\ pc[s] # "running") => pc[s] = "chdird"]_vars

\* C22's case: the process has exited after a run in which a suite failed
\* and another timed out, and every selected suite was handled once
C22_Witness ==
    /\ main_pc = "exited"
    /\ exit_code = {1}
    /\ Tally(results, "failed") > 0
    /\ \E i \in Indices(results) :
           results[i].message.fmt = "{name} timed out after {num} seconds"
    /\ Len(results) = Len(filtered_suites)

Paired(output, word, unit) ==
    LET hits == {k \in Indices(output) : /\ InLineLower(word, output[k])
                                          /\ Search(output[k], unit) # None}
    IN  IF hits = {} THEN None
        ELSE Search(output[CHOOSE k \in hits : \A j \in hits : j <= k], unit)

\* C24: _extract_performance_metrics fills latency_ms, throughput_rps and
\* memory_mb each from the last line that pairs the unit with its word (ms
\* with latency, rps with throughput, mb with memory) and from no other line,
\* and returns absence when no field was filled.
C24_MetricsPaired ==
    measurement.returned =>
        LET output == measurement.output
            expected(key) == CASE key = "latency_ms" -> Paired(output, "latency", "ms")
                               [] key = "throughput_rps" -> Paired(output, "throughput", "rps")
                               [] OTHER -> Paired(output, "memory", "mb")
            filled == {key \in MetricKeys : expected(key) # None}
        IN  IF filled = {} THEN measurement.metrics = None
            ELSE /\ measurement.metrics # None
                 /\ \A m \in measurement.metrics :
                        /\ DOMAIN m = filled
                        /\ \A key \in filled : Some(m[key]) = expected(key)

\* The types a suite is declared with
SuiteTypes == {"unit", "integration", "e2e", "performance", "system"}

\* The outcome carries the name and the type of a selected suite
OfSelectedSuite(r) ==
    /\ r.type \in SuiteTypes
    /\ \E s \in Selected : test_suites[s].name = r.name /\ test_suites[s].type = r.type

C26_ReportOfThisCall ==
    \A rep \in report :
        /\ rep.summary.total_tests = Len(results) - call.previous
        /\ rep.test_results = SubSeq(results, call.previous + 1, Len(results))

\* C27: with the catalogue and the benchmark table as shipped, no report
\* flags a bottleneck: its bottleneck list is empty and overall_performance
\* is "good", since only an outcome of type performance carries metrics and
\* the name derived from such an outcome's name is no key of the table.
C27_NoBottleneckAsShipped ==
    /\ \A i \in Indices(results) :
           results[i].performance_metrics # None =>
               /\ results[i].type = "performance"
               /\ ~InBenchmarks(system_name(results[i].name))
    /\ \A rep \in report :
           /\ rep.performance_analysis.bottlenecks = << >>
           /\ rep.performance_analysis.overall_performance = "good"

\* C27's case: a report over a performance outcome whose figures miss the
\* benchmarks of most systems, and over the outcome of a system suite that printed the
\* same figures and whose derived name is a key of the table
C27_Witness ==
    /\ report # None
    /\ \E i, j \in Indices(results) :
           /\ results[i].type = "performance"
           /\ \E m \in results[i].performance_metrics :
                  /\ "latency_ms" \in DOMAIN m
                  /\ m["latency_ms"] > Tenths(300)
                  /\ "throughput_rps" \in DOMAIN m
                  /\ m["throughput_rps"] < Tenths(200)
           /\ results[j].type = "system"
           /\ results[j].status = "passed"
           /\ results[j].duration = 61
           /\ InBenchmarks(system_name(results[j].name))

====
